---- MODULE Spec2Model ----
(***************************************************************************)
(* Confidence-budgeted top-k sampling: generate() and confidence_loss() of *)
(* src/src/prediktor/prediction/confidence.py.                             *)
(*                                                                         *)
(* Token ids are the naturals 0 .. VocabSize-1.  Numbers are rationals      *)
(* <<n, d>> in lowest terms with d > 0.  The network is loaded in bfloat16 *)
(* (model.py:11), so the tensors of generate are bfloat16.  A logit is an  *)
(* integer number of eighths (14 is the logit 1.75), which bfloat16 holds  *)
(* exactly, as it does the logits divided by the temperatures used here.   *)
(* torch.softmax and the sum of probabilities[:3] compute in float32 and   *)
(* round their results to bfloat16: 8 significant bits, to nearest, ties   *)
(* to even.  exp is tabulated to 20 fractional bits and the float32 sum    *)
(* and quotient are taken as exact.  prob_sum is a Python float after      *)
(* .item(), and 1 - prob_sum**2 and the subtraction from Config.confidence *)
(* are exact on the values met.                                            *)
(***************************************************************************)
EXTENDS Integers, Sequences, FiniteSets

\* ---------------------------------------------------------------- bounds
VocabSize == 5
MaxThreads == 2
MaxCalls == 2

Vocab == 0 .. (VocabSize - 1)
\* the threads that may be inside generate at the same time
Threads == 1 .. MaxThreads

\* ------------------------------------------------------------- rationals
RECURSIVE GCD(_, _)
GCD(a, b) == IF b = 0 THEN a ELSE GCD(b, a % b)

Abs(x) == IF x < 0 THEN -x ELSE x

Rat(n, d) == LET g == GCD(Abs(n), d) IN <<n \div g, d \div g>>

LCM(a, b) == (a \div GCD(a, b)) * b

RAdd(a, b) ==
    LET d == LCM(a[2], b[2]) IN Rat(a[1] * (d \div a[2]) + b[1] * (d \div b[2]), d)
RSub(a, b) ==
    LET d == LCM(a[2], b[2]) IN Rat(a[1] * (d \div a[2]) - b[1] * (d \div b[2]), d)
RMul(a, b) == Rat(a[1] * b[1], a[2] * b[2])
RLess(a, b) ==
    LET d == LCM(a[2], b[2]) IN a[1] * (d \div a[2]) < b[1] * (d \div b[2])
RLeq(a, b) ==
    LET d == LCM(a[2], b[2]) IN a[1] * (d \div a[2]) <= b[1] * (d \div b[2])

Zero == <<0, 1>>
One == <<1, 1>>

\* exp(-n/8) for n = 0 .. 32, in units of 2^-20
ExpTable ==
    <<1048576, 925365, 816632, 720675, 635993, 561262, 495312, 437112,
      385750, 340423, 300422, 265122, 233969, 206477, 182215, 160804,
      141909, 125235, 110519, 97533, 86072, 75959, 67033, 59157,
      52206, 46071, 40658, 35880, 31664, 27944, 24660, 21763,
      19205>>

\* torch.exp at the logit difference -n/8
exp_neg(n) == <<ExpTable[n + 1], 1048576>>

\* n / d for 128 <= n / d < 256, rounded to an integer: to nearest, ties to even
RoundEven(n, d) ==
    LET q == n \div d
        r == n % d
    IN IF 2 * r > d \/ (2 * r = d /\ q % 2 = 1) THEN q + 1 ELSE q

\* a positive n / d in bfloat16: scaled by powers of two until the quotient has
\* 8 bits, rounded there, and scaled back
RECURSIVE Scaled(_, _)
Scaled(n, d) ==
    IF n < 128 * d THEN LET h == Scaled(2 * n, d) IN <<h[1], 2 * h[2]>>
    ELSE IF n >= 256 * d THEN LET h == Scaled(n, 2 * d) IN <<2 * h[1], h[2]>>
    ELSE <<RoundEven(n, d), 1>>

\* the bfloat16 nearest to the rational x >= 0
bfloat16(x) == IF x[1] = 0 THEN Zero ELSE LET h == Scaled(x[1], x[2]) IN Rat(h[1], h[2])

\* ------------------------------------------------------------ tokenizer
\* tokenizer.eos_token_id
eos_token_id == 4

\* tokenizer.encode(input): the prompts a caller passes, already as ids
Prompts == {<<7, 2>>, <<2>>}

\* --------------------------------------------------------------- scorer
\* model(input_ids).logits[-1, :] for four deterministic stub models, in eighths:
\* all 1.0; 2.0 at id 2 and 0 elsewhere; 1.75, 0.375 and 0 elsewhere; and
\* 0, 0.5 or 1.0 by the id, the last token and the length of the Sequence
ScorerNames == {"uniform", "peaked", "skewed", "context"}

Last(ids) == ids[Len(ids)]

Scorer(name, ids) ==
    [j \in Vocab |->
        CASE name = "uniform" -> 8
          [] name = "peaked" -> IF j = 2 THEN 16 ELSE 0
          [] name = "skewed" -> IF j = 0 THEN 14 ELSE IF j = 1 THEN 3 ELSE 0
          [] OTHER -> 4 * ((j + Last(ids) + Len(ids)) % 3)]

\* ---------------------------------------------------------------- state
VARIABLES
    Config,              \* prediktor.config.Config: max_length, top_k, temperature, confidence
    initial_confidence,  \* the value Config.confidence was configured with
    scorer,              \* which stub model is loaded
    pc,                  \* per call: "idle", "while", "load", "store", "check", "sample", "done"
    input_ids,           \* per call: the growing Sequence
    original_length,     \* per call: length of the prompt
    max_total_length,    \* per call: original_length + Config.max_length
    top_k,               \* per call: [values, indices] of torch.topk for the current step
    probabilities,       \* per call: softmax over the candidates for the current step
    loaded,              \* per call: Config.confidence as read by the in-place subtraction
    nquery,              \* per call: number of model(input_ids) evaluations so far
    draws,               \* per call: the tokens drawn so far (the end token included)
    reason,              \* per call: which exit left the loop
    ncalls               \* number of calls of generate begun so far in this process

vars == <<Config, initial_confidence, scorer, pc, input_ids, original_length,
          max_total_length, top_k, probabilities, loaded, nquery, draws, reason, ncalls>>

\* ------------------------------------------------------- pure functions
\* the i-th largest logit
Largest(logits, i) ==
    CHOOSE v \in {logits[a] : a \in Vocab} :
        /\ Cardinality({b \in Vocab : logits[b] > v}) < i
        /\ i <= Cardinality({b \in Vocab : logits[b] >= v})

\* torch.topk(logits, k): the k largest logits, descending, with their vocabulary
\* ids.  The order among equal logits is unspecified: every result torch may
\* return is a member of this set.  Orders extends a prefix of ids by every id
\* not yet taken whose logit is the next value.
RECURSIVE Orders(_, _, _)
Orders(logits, values, chosen) ==
    IF Len(chosen) = Len(values)
    THEN {chosen}
    ELSE UNION {Orders(logits, values, Append(chosen, a)) :
                   a \in {b \in Vocab :
                             /\ logits[b] = values[Len(chosen) + 1]
                             /\ \A i \in 1 .. Len(chosen) : chosen[i] # b}}

topk(logits, k) ==
    LET values == [i \in 1 .. k |-> Largest(logits, i)]
    IN {[values |-> values, indices |-> indices] : indices \in Orders(logits, values, <<>>)}

RECURSIVE SumInt(_, _)
SumInt(w, n) == IF n = 0 THEN 0 ELSE w[n] + SumInt(w, n - 1)

RECURSIVE SumRat(_, _)
SumRat(p, n) == IF n = 0 THEN Zero ELSE RAdd(p[n], SumRat(p, n - 1))

Max(S) == CHOOSE x \in S : \A y \in S : x >= y

\* torch.softmax(values / temperature, dim=-1) on a bfloat16 tensor:
\* exp(x - max) for every candidate, divided by their sum, each quotient
\* rounded to bfloat16
softmax(values, temperature) ==
    LET K == Len(values)
        scaled == [i \in 1 .. K |-> (values[i] * temperature[2]) \div temperature[1]]
        high == Max({scaled[i] : i \in 1 .. K})
        weight == [i \in 1 .. K |-> exp_neg(high - scaled[i])[1]]
        total == SumInt(weight, K)
    IN [i \in 1 .. K |-> bfloat16(Rat(weight[i], total))]

\* probabilities[:n].sum() on a bfloat16 tensor
prob_sum_of(p, n) == bfloat16(SumRat(p, IF Len(p) < n THEN Len(p) ELSE n))

\* confidence_loss with the sign of the penalty turned round: prob_sum**2 - 1
confidence_loss_negated(p) ==
    LET prob_sum == prob_sum_of(p, 3)
    IN RSub(RMul(prob_sum, prob_sum), One)

\* confidence_loss without the square: 1 - prob_sum
confidence_loss_linear(p) ==
    LET prob_sum == prob_sum_of(p, 3)
    IN RSub(One, prob_sum)

\* probabilities[:3].sum().item(), then 1 - prob_sum**2
confidence_loss(p) ==
    LET prob_sum == prob_sum_of(p, 3)
    IN RSub(One, RMul(prob_sum, prob_sum))

\* one draw for each candidate that p lets torch.multinomial return: the left
\* end of the candidate's cumulative interval (p is used as weights, its sum
\* need not be 1)
DrawPoints(p) == {SumRat(p, i - 1) : i \in {j \in 1 .. Len(p) : RLess(Zero, p[j])}}

\* torch.multinomial(probabilities, num_samples=1) on the draw u in [0, sum of p):
\* the candidate-local index whose cumulative interval holds the draw
multinomial(p, u) ==
    CHOOSE i \in 1 .. Len(p) :
        /\ RLeq(SumRat(p, i - 1), u)
        /\ RLess(u, SumRat(p, i))

\* the candidate-local index used as if it were the vocabulary id
next_token_unmapped(tk, next_token_index) == next_token_index - 1

\* top_k.indices[next_token_index]
next_token(tk, next_token_index) == tk.indices[next_token_index]

\* the budget test one unit too late: Config.confidence < -1
BudgetExhaustedLate(confidence) == RLess(confidence, <<-1, 1>>)

\* Config.confidence < 0
BudgetExhausted(confidence) == RLess(confidence, Zero)

\* the end-token test left out
IsEosNever(token) == FALSE

\* next_token.item() == tokenizer.eos_token_id
IsEos(token) == token = eos_token_id

\* the loop test off by one: input_ids.size(0) <= max_total_length
LoopTestInclusive(ids, max_total) == Len(ids) <= max_total

\* input_ids.size(0) < max_total_length
LoopTest(ids, max_total) == Len(ids) < max_total

\* generated_ids = input_ids[original_length:]
generated_ids(c) == SubSeq(input_ids[c], original_length[c] + 1, Len(input_ids[c]))

\* ------------------------------------------------------- configurations
MaxLengths == {0, 1, 2}
TopKs == {1, 3, 5}
Temperatures == {<<1, 1>>, <<1, 2>>}
Confidences == {<<-1, 1>>, Zero, One}

\* the uniform-scores scenario: top_k=5, temperature=1.0, confidence=1.0, max_length=5
ScenarioConfig ==
    [max_length |-> 5, top_k |-> 5, temperature |-> One, confidence |-> One]

Configs ==
    [max_length : MaxLengths, top_k : TopKs, temperature : Temperatures,
     confidence : Confidences] \cup {ScenarioConfig}

Init ==
    /\ Config \in Configs
    /\ Config.top_k <= VocabSize
    /\ initial_confidence = Config.confidence
    /\ scorer \in ScorerNames
    /\ Config = ScenarioConfig => scorer = "uniform"
    /\ pc = [c \in Threads |-> "idle"]
    /\ input_ids = [c \in Threads |-> <<>>]
    /\ original_length = [c \in Threads |-> 0]
    /\ max_total_length = [c \in Threads |-> 0]
    /\ top_k = [c \in Threads |-> <<>>]
    /\ probabilities = [c \in Threads |-> <<>>]
    /\ loaded = [c \in Threads |-> Zero]
    /\ nquery = [c \in Threads |-> 0]
    /\ draws = [c \in Threads |-> <<>>]
    /\ reason = [c \in Threads |-> "none"]
    /\ ncalls = 0

\* ------------------------------------------------------------- actions
\* lines 14-16: tokenize the prompt, fix the length cap
Begin(c) ==
    /\ pc[c] = "idle"
    /\ ncalls < MaxCalls
    /\ \A d \in Threads : d < c => pc[d] # "idle"
    /\ ncalls' = ncalls + 1
    /\ \E prompt \in Prompts :
        /\ input_ids' = [input_ids EXCEPT ![c] = prompt]
        /\ original_length' = [original_length EXCEPT ![c] = Len(prompt)]
        /\ max_total_length' = [max_total_length EXCEPT ![c] = Len(prompt) + Config.max_length]
    /\ pc' = [pc EXCEPT ![c] = "while"]
    /\ UNCHANGED <<Config, initial_confidence, scorer, top_k, probabilities,
                   loaded, nquery, draws, reason>>

\* lines 19-26: the loop test, then the model query, top-k and softmax;
\* when the test fails the loop is left at the length cap
Forward(c) ==
    /\ pc[c] = "while"
    /\ IF LoopTest(input_ids[c], max_total_length[c])
       THEN LET logits == Scorer(scorer, input_ids[c])
            IN /\ \E tk \in topk(logits, Config.top_k) :
                    /\ top_k' = [top_k EXCEPT ![c] = tk]
                    /\ probabilities' = [probabilities EXCEPT ![c] =
                                             softmax(tk.values, Config.temperature)]
               /\ nquery' = [nquery EXCEPT ![c] = @ + 1]
               /\ pc' = [pc EXCEPT ![c] = "load"]
               /\ UNCHANGED reason
       ELSE /\ pc' = [pc EXCEPT ![c] = "done"]
            /\ reason' = [reason EXCEPT ![c] = "length-cap"]
            /\ UNCHANGED <<top_k, probabilities, nquery>>
    /\ UNCHANGED <<ncalls, Config, initial_confidence, scorer, input_ids, original_length,
                   max_total_length, loaded, draws>>

\* line 28, first half: the in-place subtraction reads Config.confidence
LoadConfidence(c) ==
    /\ pc[c] = "load"
    /\ loaded' = [loaded EXCEPT ![c] = Config.confidence]
    /\ pc' = [pc EXCEPT ![c] = "store"]
    /\ UNCHANGED <<ncalls, Config, initial_confidence, scorer, input_ids, original_length,
                   max_total_length, top_k, probabilities, nquery, draws, reason>>

\* line 28, second half: the difference is stored back into Config.confidence
StoreConfidence(c) ==
    /\ pc[c] = "store"
    /\ Config' = [Config EXCEPT !.confidence =
                      RSub(loaded[c], confidence_loss(probabilities[c]))]
    /\ pc' = [pc EXCEPT ![c] = "check"]
    /\ UNCHANGED <<ncalls, initial_confidence, scorer, input_ids, original_length,
                   max_total_length, top_k, probabilities, loaded, nquery, draws, reason>>

\* lines 29-30: stop generation if the confidence is used up; the break ends
\* the iteration, whose top_k and probabilities are not read again
CheckConfidence(c) ==
    /\ pc[c] = "check"
    /\ IF BudgetExhausted(Config.confidence)
       THEN /\ pc' = [pc EXCEPT ![c] = "done"]
            /\ reason' = [reason EXCEPT ![c] = "budget-exhausted"]
            /\ top_k' = [top_k EXCEPT ![c] = <<>>]
            /\ probabilities' = [probabilities EXCEPT ![c] = <<>>]
       ELSE /\ pc' = [pc EXCEPT ![c] = "sample"]
            /\ UNCHANGED <<reason, top_k, probabilities>>
    /\ UNCHANGED <<ncalls, Config, initial_confidence, scorer, input_ids, original_length,
                   max_total_length, loaded, nquery, draws>>

\* lines 32-36: draw a candidate, map it to its vocabulary id, stop on the
\* end token, otherwise append; this ends the iteration, whose top_k and
\* probabilities are not read again (the next iteration rebinds them)
Sample(c) ==
    /\ pc[c] = "sample"
    /\ \E u \in DrawPoints(probabilities[c]) :
        LET next_token_index == multinomial(probabilities[c], u)
            token == next_token(top_k[c], next_token_index)
        IN /\ draws' = [draws EXCEPT ![c] = Append(@, token)]
           /\ IF IsEos(token)
              THEN /\ pc' = [pc EXCEPT ![c] = "done"]
                   /\ reason' = [reason EXCEPT ![c] = "end-token"]
                   /\ UNCHANGED input_ids
              ELSE /\ input_ids' = [input_ids EXCEPT ![c] = Append(@, token)]
                   /\ pc' = [pc EXCEPT ![c] = "while"]
                   /\ UNCHANGED reason
    /\ top_k' = [top_k EXCEPT ![c] = <<>>]
    /\ probabilities' = [probabilities EXCEPT ![c] = <<>>]
    /\ UNCHANGED <<ncalls, Config, initial_confidence, scorer, original_length,
                   max_total_length, loaded, nquery>>

\* lines 38-42: the generated ids are decoded and returned; the call's locals
\* are gone
Return(c) ==
    /\ pc[c] = "done"
    /\ pc' = [pc EXCEPT ![c] = "idle"]
    /\ input_ids' = [input_ids EXCEPT ![c] = <<>>]
    /\ original_length' = [original_length EXCEPT ![c] = 0]
    /\ max_total_length' = [max_total_length EXCEPT ![c] = 0]
    /\ loaded' = [loaded EXCEPT ![c] = Zero]
    /\ nquery' = [nquery EXCEPT ![c] = 0]
    /\ draws' = [draws EXCEPT ![c] = <<>>]
    /\ reason' = [reason EXCEPT ![c] = "none"]
    /\ UNCHANGED <<Config, initial_confidence, scorer, top_k, probabilities, ncalls>>

Step(c) ==
    \/ Forward(c)
    \/ LoadConfidence(c)
    \/ StoreConfidence(c)
    \/ CheckConfidence(c)
    \/ Sample(c)
    \/ Return(c)

\* no call of generate is in progress
Quiet == \A c \in Threads : pc[c] = "idle"

\* generate is called again only after the previous call returned
BeginSeq(c) == Quiet /\ Begin(c)

\* generate is called from another thread while a call is in progress
BeginPar(c) == ~Quiet /\ Begin(c)

Next == \E c \in Threads : BeginSeq(c) \/ Step(c)

Spec == Init /\ [][Next]_vars

NextPar == \E c \in Threads : BeginSeq(c) \/ BeginPar(c) \/ Step(c)

\* concurrent calls are explored with the context-dependent stub model loaded
\* and the temperature at 1
InitPar == Init /\ scorer = "context" /\ Config.temperature = One

SpecPar == InitPar /\ [][NextPar]_vars

\* --------------------------------------------------------------- helpers
prompt_of(c) == SubSeq(input_ids[c], 1, original_length[c])

\* the tokens one iteration on the Sequence ids can draw: those that some result
\* of torch.topk holds (every candidate has a positive probability)
Drawable(ids) ==
    LET logits == Scorer(scorer, ids)
    IN {t \in Vocab : logits[t] >= Largest(logits, Config.top_k)}

\* generate run on its own from a given confidence, drawing the tokens ds in
\* turn: the final Sequence, and whether ds held every draw the run asked for
\* and each was a token that iteration can draw
RECURSIVE GenerateAlone(_, _, _, _)
GenerateAlone(ids, confidence, ds, max_total) ==
    IF ~LoopTest(ids, max_total)
    THEN [ids |-> ids, complete |-> TRUE]
    ELSE LET logits == Scorer(scorer, ids)
             values == [i \in 1 .. Config.top_k |-> Largest(logits, i)]
             p == softmax(values, Config.temperature)
             left == RSub(confidence, confidence_loss(p))
         IN IF BudgetExhausted(left)
            THEN [ids |-> ids, complete |-> TRUE]
            ELSE IF ds = <<>> \/ Head(ds) \notin Drawable(ids)
            THEN [ids |-> ids, complete |-> FALSE]
            ELSE IF IsEos(Head(ds))
            THEN [ids |-> ids, complete |-> TRUE]
            ELSE GenerateAlone(Append(ids, Head(ds)), left, Tail(ds), max_total)

\* ---------------------------------------------------------------- claims

\* C1: at the start of every call of generate the confidence budget equals the
\* configured initial confidence, whatever earlier calls did.
C1_FreshBudgetPerCall ==
    \A c \in Threads :
        (pc[c] = "while" /\ nquery[c] = 0) => Config.confidence = initial_confidence

\* C2: a call makes at most max_length model queries, every query lengthens the
\* Sequence by zero or one token, and the suffix is never longer than max_length.
C2_QueryAndLengthBound ==
    \A c \in Threads :
        /\ nquery[c] <= Config.max_length
        /\ Len(generated_ids(c)) <= nquery[c]
        /\ nquery[c] <= Len(generated_ids(c)) + 1
        /\ Len(generated_ids(c)) <= Config.max_length

C2_Witness ==
    \E c \in Threads :
        /\ pc[c] = "done"
        /\ reason[c] = "length-cap"
        /\ Config.max_length = 2
        /\ nquery[c] = 2
        /\ Len(generated_ids(c)) = 2

\* C3: when the confidence after the charge is below 0 the loop stops before
\* sampling: the call's next step ends it with no draw, no token appended and no
\* further model query, and a finished call does nothing but return.
C3_StopBeforeSampling ==
    [][\A c \in Threads :
        /\ (pc[c] = "check" /\ RLess(Config.confidence, Zero) /\ pc'[c] # "check")
              => /\ pc'[c] = "done"
                 /\ reason'[c] = "budget-exhausted"
                 /\ draws'[c] = draws[c]
                 /\ input_ids'[c] = input_ids[c]
                 /\ nquery'[c] = nquery[c]
        /\ (pc[c] = "done" /\ pc'[c] # "idle")
              => /\ pc'[c] = "done"
                 /\ draws'[c] = draws[c]
                 /\ input_ids'[c] = input_ids[c]
                 /\ nquery'[c] = nquery[c]]_vars

\* a call stopped for the budget in a step that could have drawn the end token
C3_Witness ==
    \E c \in Threads :
        /\ pc[c] = "done"
        /\ reason[c] = "budget-exhausted"
        /\ nquery[c] = 2
        /\ eos_token_id \in Drawable(input_ids[c])

\* C4: the end token is never appended: no generated token of the Sequence
\* equals eos_token_id.
C4_EndTokenNotAppended ==
    \A c \in Threads :
        \A i \in (original_length[c] + 1) .. Len(input_ids[c]) :
            input_ids[c][i] # eos_token_id

C4_Witness ==
    \E c \in Threads :
        /\ pc[c] = "done"
        /\ reason[c] = "end-token"
        /\ Len(generated_ids(c)) >= 1

\* the draws ds, and ds continued by one more draw of the same stream
Continued(ds) == {ds} \cup {Append(ds, t) : t \in Vocab}

\* C5: two calls with the same prompt, the same configuration and the same
\* random draws return the same generated ids, also when made one after the
\* other: every call returns what the first call of the process returns on its
\* prompt for every stream of draws that starts with the draws the call made.
C5_Deterministic ==
    \A c \in Threads :
        pc[c] = "done"
            => \A ds \in Continued(draws[c]) :
                  LET first == GenerateAlone(prompt_of(c), initial_confidence, ds,
                                             max_total_length[c])
                  IN first.complete => first.ids = input_ids[c]

\* C6: a call that ran while another call was in progress returns what it would
\* return running alone from the configured confidence, for every stream of
\* draws that starts with the draws the call made.
C6_ConcurrentCallsIsolated ==
    \A c \in Threads :
        (/\ pc[c] = "done"
         /\ ncalls = 2
         /\ \A d \in Threads \ {c} : pc[d] \notin {"idle", "done"})
            => \A ds \in Continued(draws[c]) :
                  LET alone == GenerateAlone(prompt_of(c), initial_confidence, ds,
                                             max_total_length[c])
                  IN alone.ids = input_ids[c] \/ ~alone.complete

\* C7: the confidence never increases, and it changes only by a call's charge,
\* which subtracts the non-negative penalty 1 - (top-3 probability sum)^2.
C7_BudgetNonIncreasing ==
    [][/\ RLeq(Config'.confidence, Config.confidence)
       /\ Config'.confidence # Config.confidence
            => \E c \in Threads :
                  LET K == Len(probabilities[c])
                      top3 == bfloat16(SumRat(probabilities[c], IF K < 3 THEN K ELSE 3))
                      penalty == RSub(One, RMul(top3, top3))
                  IN /\ pc[c] = "store"
                     /\ pc'[c] = "check"
                     /\ RLeq(Zero, penalty)
                     /\ Config'.confidence = RSub(Config.confidence, penalty)]_vars

C7_Witness ==
    \E c \in Threads :
        /\ pc[c] = "check"
        /\ nquery[c] = 2
        /\ RLess(Config.confidence, loaded[c])

\* C8: the uniform-scores scenario, first call of the process
Scenario(c) ==
    /\ ncalls = 1
    /\ Config.max_length = 5
    /\ Config.top_k = 5
    /\ Config.temperature = One
    /\ initial_confidence = One
    /\ scorer = "uniform"
    /\ prompt_of(c) = <<7, 2>>
    /\ pc[c] # "idle"

\* C8 as stated: for every random draw the scenario halts with reason
\* budget-exhausted after appending at most one token.
C8_AlwaysBudgetExhausted ==
    \A c \in Threads :
        (Scenario(c) /\ pc[c] = "done")
            => reason[c] = "budget-exhausted" /\ Len(generated_ids(c)) <= 1

\* C8 amended: the penalty per step is 0.64 to two decimals (10455/16384 on the
\* bfloat16 probabilities), the confidence is 0.36 (5929/16384) after the first
\* charge and -0.28 (-2263/8192) after the second; the call halts with
\* budget-exhausted at its second query with exactly one token appended, unless
\* the first draw is the end token, when it halts with end-token at its first
\* query with nothing appended.
C8_ScenarioOutcome ==
    \A c \in Threads :
        Scenario(c) =>
            /\ (pc[c] \in {"load", "store", "check", "sample"}
                    => confidence_loss(probabilities[c]) = <<10455, 16384>>)
            /\ (pc[c] \in {"check", "sample"} /\ nquery[c] = 1
                    => Config.confidence = <<5929, 16384>>)
            /\ (pc[c] = "check" /\ nquery[c] = 2
                    => Config.confidence = <<-2263, 8192>>)
            /\ pc[c] = "done"
                 => \/ /\ reason[c] = "budget-exhausted"
                       /\ nquery[c] = 2
                       /\ Len(generated_ids(c)) = 1
                    \/ /\ reason[c] = "end-token"
                       /\ nquery[c] = 1
                       /\ generated_ids(c) = <<>>
                       /\ draws[c] = <<eos_token_id>>

C8_Witness ==
    \E c \in Threads :
        /\ Scenario(c)
        /\ pc[c] = "done"
        /\ reason[c] = "budget-exhausted"
        /\ Len(generated_ids(c)) = 1

\* C9: every appended token is a vocabulary id that is among the top_k highest
\* logits the model returned in that step for the full current Sequence.
C9_AppendedTokenIsCandidate ==
    [][\A c \in Threads :
        (pc[c] = "sample" /\ Len(input_ids'[c]) = Len(input_ids[c]) + 1)
            => LET token == Last(input_ids'[c])
                   logits == Scorer(scorer, input_ids[c])
               IN /\ token \in Vocab
                  /\ SubSeq(input_ids'[c], 1, Len(input_ids[c])) = input_ids[c]
                  /\ Cardinality({j \in Vocab : logits[j] > logits[token]})
                         < Config.top_k]_vars

\* a token that is not the best-scoring one was appended under a real restriction
C9_Witness ==
    \E c \in Threads :
        /\ pc[c] = "while"
        /\ Len(generated_ids(c)) >= 1
        /\ Config.top_k < VocabSize
        /\ LET before == SubSeq(input_ids[c], 1, Len(input_ids[c]) - 1)
           IN Scorer(scorer, before)[Last(input_ids[c])] < Largest(Scorer(scorer, before), 1)

\* C10: with top_k <= 3 the penalty is 0 at every step and the confidence never
\* changes; with a non-negative starting confidence no call then stops for the
\* budget.
C10_NoPenaltyUpToThreeCandidates ==
    Config.top_k <= 3
        => /\ Config.confidence = initial_confidence
           /\ \A c \in Threads :
                 /\ pc[c] \in {"load", "store", "check", "sample"}
                       => confidence_loss(probabilities[c]) = Zero
                 /\ RLeq(Zero, initial_confidence) => reason[c] # "budget-exhausted"

====
